---- MODULE Spec2Model ----
(***************************************************************************)
(* Model of the firmware-update engine of maestrx/pimodules (src/pico.py,  *)
(* with the legacy uploader src/upis_fw.py): Intel-HEX validation, the     *)
(* retrying I2C client, the serial line/ACK handshake and the sequencing   *)
(* of upload_firmware.                                                     *)
(*                                                                         *)
(* Text is modelled at character level: a line of the firmware file is a   *)
(* sequence of one-character strings (without its newline terminator), a   *)
(* file is a sequence of lines.  Bytes received on the serial line are     *)
(* one-character strings as well.                                          *)
(***************************************************************************)
EXTENDS Integers, Sequences, FiniteSets, TLC

\* ------------------------------------------------------------------ text

\* The hex digits accepted by the record grammar [a-fA-F0-9].
HexLower == <<"0","1","2","3","4","5","6","7","8","9","a","b","c","d","e","f">>
HexUpper == <<"0","1","2","3","4","5","6","7","8","9","A","B","C","D","E","F">>

HexChars == {HexLower[i] : i \in 1..16} \cup {HexUpper[i] : i \in 1..16}

IsHex(c) == c \in HexChars

\* int(c, 16) of one hex digit.
HexVal(c) == (CHOOSE i \in 1..16 : HexLower[i] = c \/ HexUpper[i] = c) - 1

\* The characters str.strip() / bytes.strip() remove.
IsSpace(c) == c \in {" ", "\t", "\r", "\n"}

RECURSIVE LStrip(_)
LStrip(s) == IF s # <<>> /\ IsSpace(Head(s)) THEN LStrip(Tail(s)) ELSE s

RECURSIVE RStrip(_)
RStrip(s) ==
  IF s # <<>> /\ IsSpace(s[Len(s)]) THEN RStrip(SubSeq(s, 1, Len(s) - 1)) ELSE s

\* line.strip()
Strip(s) == RStrip(LStrip(s))

\* Python's s[a:b] with 0 <= a <= b (0-based, end exclusive, clipped to len(s)).
Slice(s, a, b) ==
  LET hi == IF b > Len(s) THEN Len(s) ELSE b
  IN  IF a >= hi THEN <<>> ELSE SubSeq(s, a + 1, hi)

\* int(s, 16) of a non-empty sequence of hex digits.
RECURSIVE HexInt(_)
HexInt(s) ==
  IF s = <<>> THEN 0 ELSE 16 * HexInt(SubSeq(s, 1, Len(s) - 1)) + HexVal(s[Len(s)])

\* ------------------------------------------------------- validate_file

\* re.match(r"^:(hh)(hh)(hh)(hh)(h*)(hh)$", line): a colon, then at least ten
\* hex digits and nothing else.
ReMatch(line) ==
  /\ Len(line) >= 11
  /\ line[1] = ":"
  /\ \A i \in 2..Len(line) : IsHex(line[i])

\* target.group(n) of a matching line.
Group1(line) == Slice(line, 1, 3)
Group4(line) == Slice(line, 7, 9)
Group5(line) == Slice(line, 9, Len(line) - 2)
Group6(line) == Slice(line, Len(line) - 2, Len(line))

\* len(target.group(5))/2 != int(target.group(1),16).  "/" is true division
\* under python3 (an odd digit count never equals an integer) and floor
\* division under python2; the header of pico.py names both interpreters.
LengthMismatch(line, py) ==
  IF py = 3
    THEN Len(Group5(line)) # 2 * HexInt(Group1(line))
    ELSE Len(Group5(line)) \div 2 # HexInt(Group1(line))

\* sum(int(line[i:i+2],16) for i in range(1, len(line), 2))
RECURSIVE PairSum(_, _)
PairSum(line, i) ==
  IF i >= Len(line) THEN 0
  ELSE HexInt(Slice(line, i, i + 2)) + PairSum(line, i + 2)

\* A slip: the sum taken modulo 128.
ChecksumMismatchMod128(line) == PairSum(line, 1) % 128 # 0

\* Line 512: the sum of the bytes of the line is not 0 modulo 256.
ChecksumMismatch(line) == PairSum(line, 1) % 256 # 0

\* The loop of validate_file from line number lnum on.  The outcome is the
\* returned boolean together with what the function logs: the reason and the
\* line number it names.  A line the pattern does not match makes
\* target.group raise, which the enclosing try turns into False.
\* A slip: a file that ends without a record of type 01 is accepted.
NoEofAccepted(f) == [ok |-> TRUE, why |-> "ok", lnum |-> Len(f)]

\* Lines 517-518: the file ended and no record of type 01 was met.
NoEofOutcome(f) == [ok |-> FALSE, why |-> "noeof", lnum |-> Len(f)]

RECURSIVE ValidateFrom(_, _, _)
ValidateFrom(f, lnum, py) ==
  IF lnum > Len(f) THEN NoEofOutcome(f)
  ELSE LET line == Strip(f[lnum])
       IN  IF ~ReMatch(line)
             THEN [ok |-> FALSE, why |-> "exception", lnum |-> lnum]
           ELSE IF LengthMismatch(line, py)
             THEN [ok |-> FALSE, why |-> "length", lnum |-> lnum]
           ELSE IF ChecksumMismatch(line)
             THEN [ok |-> FALSE, why |-> "checksum", lnum |-> lnum]
           ELSE IF Group4(line) = <<"0", "1">>
             THEN [ok |-> TRUE, why |-> "ok", lnum |-> lnum]
           ELSE ValidateFrom(f, lnum + 1, py)

validate_file(f, py) == ValidateFrom(f, 1, py)

\* ------------------------------------------------------------- inputs

\* Raw lines of firmware files (text of the line without its newline).
DataLine  == <<":","0","1","0","0","0","0","0","0","0","0","F","F">>
EofLine   == <<":","0","0","0","0","0","0","0","1","F","F">>
BadSum    == <<":","0","1","0","0","0","0","0","0","0","0","F","E">>
BadLen    == <<":","0","2","0","0","0","0","0","0","0","0","F","E">>
\* An end-of-file record behind one blank: strip() removes the blank.
SpEofLine == <<" ",":","0","0","0","0","0","0","0","1","F","F">>
\* A record of type 10 behind one blank: characters 7..8 of the raw line are "01".
SpT10Line == <<" ",":","0","0","0","0","0","0","1","0","F","0">>
\* Three payload digits with byte count 01.
OddLine   == <<":","0","1","0","0","0","0","0","0","F","0","0","7","8">>
\* Not a record at all.
JunkLine  == <<":","z","z">>

\* The probe line test_serial sends, ":020000040000FA\r".
ProbeLine ==
  <<":","0","2","0","0","0","0","0","4","0","0","0","0","F","A","\r">>

MaxLines == 2

RECURSIVE SeqsUpTo(_, _)
SeqsUpTo(S, n) ==
  IF n = 0 THEN {<<>>}
  ELSE LET shorter == SeqsUpTo(S, n - 1)
       IN  shorter \cup {Append(f, l) : f \in {g \in shorter : Len(g) = n - 1}, l \in S}

\* The firmware files of the update runs.
Lines == {DataLine, EofLine, BadSum, SpEofLine, SpT10Line}
Files == SeqsUpTo(Lines, MaxLines)
MainFiles == {<<DataLine, EofLine>>, <<DataLine, BadSum>>}

\* Bytes on the inbound serial line are one-character strings too; the control
\* character 0x06 (ACK) is written in caret notation.
ACK == "^F"

\* What one read of a line from the serial port can return.
Chunks == {<<ACK>>, <<"X">>}

\* The same with lines of more than one byte: the ACK byte behind another
\* byte, behind a blank, before another byte, and an empty line.
NoisyChunks == Chunks \cup {<<"X", ACK>>, <<" ", ACK>>, <<ACK, "X">>, <<"\n">>}

\* At most this many unread lines wait in the inbound buffer.
MaxRx == 1

\* Values a register read can return.
ReadValues == {0, 285}

\* None where the code holds a number.
NoData == 0 - 1

\* ------------------------------------------------------------- state

VARIABLES
  pyver,        \* the interpreter: 2 or 3
  args,         \* self.args: fw_file, the flags and the verbosity
  capability,   \* self.capability: which modules could be imported
  version_reg,  \* the device's register 0x38 of 0x69: its firmware version
  peer,         \* the device on the serial line: "cooperative", "silent",
                \* "free" or "noisy"
  pc,           \* where the program is
  retval,       \* what upload_firmware returned: "pending", "True", "False"
  vres,         \* outcome of validate_file
  i2cbus,       \* self.i2cbus: "None" or "open"
  i2c,          \* the running call of run_i2c_with_retry
  i2cret,       \* what run_i2c_with_retry returned
  busLog,       \* the calls of run_i2c_with_retry that ended, in order
  orig_fw_version, new_fw_version,
  pico_serial,  \* self.pico_serial: "None" or "open"
  rx,           \* inbound serial buffer: the lines a read would return, in order
  attempts,     \* test_serial's counter
  lnum, ret,    \* send_file's line number and result
  sl,           \* the running call of send_line
  wait_iter, lineack,   \* wait_ack's locals
  slret,        \* what send_line returned
  log,          \* every call of send_line: what was asked, what was written, the answer
  mut           \* a changed copy of the firmware file and what validate_file says of it

vars == <<pyver, args, capability, version_reg, peer, pc, retval, vres, i2cbus, i2c, i2cret,
          busLog, orig_fw_version, new_fw_version, pico_serial, rx, attempts,
          lnum, ret, sl, wait_iter, lineack, slret, log, mut>>

cfgVars    == <<pyver, args, capability, version_reg, peer, mut>>
i2cVars    == <<i2cbus, i2c, i2cret, busLog>>
serialVars == <<pico_serial, rx, attempts, lnum, ret, sl, wait_iter, lineack, slret, log>>

NoCall  == [op |-> "", device |-> 0, address |-> 0, data |-> NoData,
            given |-> 0, max_tries |-> 0, outcomes |-> <<>>, ret |-> ""]
RetNone == [kind |-> "None", val |-> 0]
RetTrue == [kind |-> "True", val |-> 0]
RetVal(v) == [kind |-> "value", val |-> v]
NoResult == [ok |-> FALSE, why |-> "unset", lnum |-> 0]
NoLine  == [line |-> <<>>, ack_wait |-> 0, ret |-> ""]
NoChange == [kind |-> "none", k |-> 0, file |-> <<>>, res |-> NoResult]

ArgSets(files) ==
  [fw_file : files, skip_fw_verify : BOOLEAN, fw_verify_only : BOOLEAN,
   skip_i2c_fw : BOOLEAN, skip_i2c_bl : BOOLEAN, skip_i2c_reset : BOOLEAN,
   i2c_bl_local : BOOLEAN, verbose : {0}]

\* The part of Init that does not depend on the inputs.
InitData ==
  /\ version_reg = 0
  /\ retval = "pending"
  /\ vres = NoResult
  /\ i2cret = RetNone
  /\ busLog = <<>>
  /\ orig_fw_version = NoData
  /\ new_fw_version = NoData
  /\ pico_serial = "None"
  /\ rx = <<>>
  /\ attempts = 0
  /\ lnum = 0
  /\ ret = TRUE
  /\ sl = NoLine
  /\ wait_iter = 0
  /\ lineack = FALSE
  /\ slret = FALSE
  /\ log = <<>>
  /\ mut = NoChange

InitRest ==
  /\ pc = "get_capabilities"
  /\ i2cbus = "None"
  /\ i2c = NoCall
  /\ InitData

\* The update runs: every combination of flags and capabilities, a file that
\* validates and one that does not, a device that acknowledges every line and
\* one that never answers.
Init ==
  /\ pyver \in {2, 3}
  /\ args \in ArgSets(MainFiles)
  /\ capability \in [serial : BOOLEAN, smbus : BOOLEAN, progress : {FALSE}]
  /\ peer \in {"cooperative", "silent"}
  /\ InitRest

\* -------------------------------------------------- run_i2c_with_retry

\* max_tries = kwargs.get('max_tries', 12), scaled down.
DefaultMaxTries == 2

\* Protocol constants (decimal): devices 0x69 and 0x6b, the registers read
\* and written, and the values written to register 0x00 of device 0x6b.
DevStatus    == 105
DevControl   == 107
RegPcb       == 53
RegModel     == 54
RegFwVersion == 56
RegMode      == 0
LocalBL      == 255
RemoteBL     == 187
FactoryReset == 221

\* The state of a call of run_i2c_with_retry at its entry: the arguments, the
\* local max_tries, and (for the record) the value max_tries was given and the
\* outcome of each bus operation attempted so far.
Frame(op, device, address, data, max_tries, to) ==
  [op |-> op, device |-> device, address |-> address, data |-> data,
   given |-> max_tries, max_tries |-> max_tries, outcomes |-> <<>>, ret |-> to]

\* A caller's call self.run_i2c_with_retry(op, device, address, data=data),
\* max_tries at its default; the caller goes on at `to` once it returned.
I2CCall(op, device, address, data, to) ==
  /\ i2c' = Frame(op, device, address, data, DefaultMaxTries, to)
  /\ pc' = "i2c_enter"

\* return <r>: the call ends; busLog records it, whether it reached the bus,
\* and when it ran: the state of the serial port and the number of calls of
\* send_line made before it.
I2CReturn(r, call) ==
  /\ i2cret' = r
  /\ i2c' = call
  /\ busLog' = Append(busLog, [op |-> call.op, device |-> call.device,
                               address |-> call.address, data |-> call.data,
                               kind |-> r.kind, to |-> call.ret,
                               touched |-> call.outcomes # <<>>,
                               serial |-> pico_serial, sent |-> Len(log)])
  /\ pc' = "i2c_done"

\* A slip: "not data" in place of "data is None".
MissingDataFalsy(call) == call.op \in {"wb", "ww"} /\ call.data \in {NoData, 0}

\* Line 607: op.startswith('w') and data is None.
MissingData(call) == call.op \in {"wb", "ww"} /\ call.data = NoData

\* Lines 604-619: the missing-data check and the lazy open of the bus handle.
I2CEnter ==
  /\ pc = "i2c_enter"
  /\ IF MissingData(i2c)
       THEN I2CReturn(RetNone, i2c) /\ UNCHANGED i2cbus
     ELSE IF i2cbus = "None"
       THEN \E opened \in BOOLEAN :
              IF opened
                THEN /\ i2cbus' = "open"
                     /\ pc' = "i2c_loop"
                     /\ UNCHANGED <<i2c, i2cret, busLog>>
                ELSE I2CReturn(RetNone, i2c) /\ UNCHANGED i2cbus
     ELSE /\ pc' = "i2c_loop"
          /\ UNCHANGED i2cVars
  /\ UNCHANGED <<cfgVars, retval, vres, orig_fw_version, new_fw_version, serialVars>>

I2CUnchanged ==
  UNCHANGED <<cfgVars, retval, vres, i2cbus, orig_fw_version, new_fw_version, serialVars>>

\* A slip: one pass too many.
TriesLeftOffByOne(call) == call.max_tries >= 0

\* Line 621: while max_tries > 0.
TriesLeft(call) == call.max_tries > 0

\* The device: a word read of register 0x38 of device 0x69 gives the version
\* of the firmware that runs, and a write of 0xdd to register 0x00 of device
\* 0x6b restarts the device with the firmware it now holds.
ReadsVersion(call) ==
  call.op = "rw" /\ call.device = DevStatus /\ call.address = RegFwVersion
IsFactoryReset(call) ==
  /\ call.op = "wb" /\ call.device = DevControl /\ call.address = RegMode
  /\ call.data = FactoryReset

\* One pass of the loop in which the bus operation succeeds.
I2CAttemptOk ==
  /\ pc = "i2c_loop"
  /\ TriesLeft(i2c)
  /\ i2c.op \in {"rb", "rw", "wb", "ww"}
  /\ LET call == [i2c EXCEPT !.outcomes = Append(@, "ok")]
     IN  IF i2c.op \in {"rb", "rw"}
           THEN /\ IF ReadsVersion(i2c)
                     THEN I2CReturn(RetVal(version_reg), call)
                     ELSE \E v \in ReadValues : I2CReturn(RetVal(v), call)
                /\ version_reg' = version_reg
           ELSE /\ I2CReturn(RetTrue, call)
                /\ IF IsFactoryReset(i2c)
                     THEN version_reg' \in ReadValues
                     ELSE version_reg' = version_reg
  /\ UNCHANGED <<pyver, args, capability, peer, mut, retval, vres, i2cbus,
                 orig_fw_version, new_fw_version, serialVars>>

\* One pass in which the bus operation raises IOError: max_tries -= 1, sleep,
\* and the loop goes on.
I2CAttemptIOError ==
  /\ pc = "i2c_loop"
  /\ TriesLeft(i2c)
  /\ i2c.op \in {"rb", "rw", "wb", "ww"}
  /\ i2c' = [i2c EXCEPT !.max_tries = @ - 1, !.outcomes = Append(@, "IOError")]
  /\ UNCHANGED <<pc, i2cret, busLog>>
  /\ I2CUnchanged

\* A slip: any exception is handled as IOError is.
I2CAttemptErrorRetried ==
  /\ pc = "i2c_loop"
  /\ TriesLeft(i2c)
  /\ i2c.op \in {"rb", "rw", "wb", "ww"}
  /\ i2c' = [i2c EXCEPT !.max_tries = @ - 1, !.outcomes = Append(@, "error")]
  /\ UNCHANGED <<pc, i2cret, busLog>>
  /\ I2CUnchanged

\* One pass in which the bus operation raises anything else: return None.
I2CAttemptError ==
  /\ pc = "i2c_loop"
  /\ TriesLeft(i2c)
  /\ i2c.op \in {"rb", "rw", "wb", "ww"}
  /\ I2CReturn(RetNone, [i2c EXCEPT !.outcomes = Append(@, "error")])
  /\ I2CUnchanged

\* The loop ends without a return ("Unexpected situation!"), or the operation
\* is none of rb, rw, wb, ww: return None with no bus operation.
I2CGiveUp ==
  /\ pc = "i2c_loop"
  /\ ~TriesLeft(i2c) \/ i2c.op \notin {"rb", "rw", "wb", "ww"}
  /\ I2CReturn(RetNone, i2c)
  /\ I2CUnchanged

\* ------------------------------------------------------ get_capabilities

\* Lines 163-173: with smbus imported, the board revision and the model code
\* are read (their values are only logged).
GetCapabilities ==
  /\ pc = "get_capabilities"
  /\ IF capability.smbus
       THEN I2CCall("rb", DevStatus, RegPcb, NoData, "gc_model")
       ELSE pc' = "upload_firmware" /\ UNCHANGED i2c
  /\ UNCHANGED <<cfgVars, retval, vres, i2cbus, i2cret, busLog,
                 orig_fw_version, new_fw_version, serialVars>>

GcModel ==
  /\ pc = "i2c_done" /\ i2c.ret = "gc_model"
  /\ I2CCall("rb", DevStatus, RegModel, NoData, "gc_done")
  /\ UNCHANGED <<cfgVars, retval, vres, i2cbus, i2cret, busLog,
                 orig_fw_version, new_fw_version, serialVars>>

GcDone ==
  /\ pc = "i2c_done" /\ i2c.ret = "gc_done"
  /\ pc' = "upload_firmware"
  /\ i2c' = NoCall
  /\ i2cret' = RetNone
  /\ UNCHANGED <<cfgVars, retval, vres, i2cbus, busLog,
                 orig_fw_version, new_fw_version, serialVars>>

\* ------------------------------------------------------- upload_firmware

\* return True / return False of upload_firmware.
Return(b) ==
  /\ retval' = (IF b THEN "True" ELSE "False")
  /\ pc' = "done"

\* A slip: the result of validate_file is not looked at.
ValidationIgnored == TRUE

\* Lines 400-406: the validation is skipped, or validate_file returns True.
ValidationPassed == args.skip_fw_verify \/ validate_file(args.fw_file, pyver).ok

\* Lines 394-410: the serial capability check, the validation of the file and
\* the verify-only exit.
UploadFirmware ==
  /\ pc = "upload_firmware"
  /\ IF ~capability.serial
       THEN Return(FALSE) /\ UNCHANGED vres
     ELSE IF ~ValidationPassed
       THEN Return(FALSE) /\ vres' = validate_file(args.fw_file, pyver)
     ELSE /\ vres' = IF args.skip_fw_verify THEN vres
                     ELSE validate_file(args.fw_file, pyver)
          /\ IF args.fw_verify_only
               THEN Return(TRUE)
               ELSE pc' = "uf_i2c_fw" /\ UNCHANGED retval
  /\ UNCHANGED <<cfgVars, i2cVars, orig_fw_version, new_fw_version, serialVars>>

\* Lines 413-416: the read of the running firmware's version.
UfReadVersion ==
  /\ pc = "uf_i2c_fw"
  /\ IF capability.smbus /\ ~args.skip_i2c_fw
       THEN I2CCall("rw", DevStatus, RegFwVersion, NoData, "uf_fw_ret")
       ELSE pc' = "uf_i2c_bl" /\ UNCHANGED i2c
  /\ UNCHANGED <<cfgVars, retval, vres, i2cbus, i2cret, busLog,
                 orig_fw_version, new_fw_version, serialVars>>

\* Lines 416-420.
UfVersionRead ==
  /\ pc = "i2c_done" /\ i2c.ret = "uf_fw_ret"
  /\ IF i2cret.kind = "None"
       THEN Return(FALSE) /\ UNCHANGED orig_fw_version
       ELSE /\ orig_fw_version' = i2cret.val
            /\ pc' = "uf_i2c_bl"
            /\ UNCHANGED retval
  /\ i2c' = NoCall
  /\ i2cret' = RetNone
  /\ UNCHANGED <<cfgVars, vres, i2cbus, busLog, new_fw_version, serialVars>>

\* A slip: the two values exchanged.
BootloaderValueSwapped == IF args.i2c_bl_local THEN RemoteBL ELSE LocalBL

\* Lines 423-432: 0xff for the local bootloader, 0xbb for the remote one.
BootloaderValue == IF args.i2c_bl_local THEN LocalBL ELSE RemoteBL

\* Lines 422-438: the write that puts the device into bootloader mode.
UfBootloader ==
  /\ pc = "uf_i2c_bl"
  /\ IF capability.smbus /\ ~args.skip_i2c_bl
       THEN I2CCall("wb", DevControl, RegMode, BootloaderValue, "uf_bl_ret")
       ELSE pc' = "uf_serial" /\ UNCHANGED i2c
  /\ UNCHANGED <<cfgVars, retval, vres, i2cbus, i2cret, busLog,
                 orig_fw_version, new_fw_version, serialVars>>

\* A slip: the result of the write is not looked at.
WriteFailedIgnored(r) == FALSE

\* Lines 426, 432, 463: run_i2c_with_retry(...) is None.
WriteFailed(r) == r.kind = "None"

UfBootloaderSet ==
  /\ pc = "i2c_done" /\ i2c.ret = "uf_bl_ret"
  /\ IF WriteFailed(i2cret)
       THEN Return(FALSE)
       ELSE pc' = "uf_serial" /\ UNCHANGED retval
  /\ i2c' = NoCall
  /\ i2cret' = RetNone
  /\ UNCHANGED <<cfgVars, vres, i2cbus, busLog, orig_fw_version,
                 new_fw_version, serialVars>>

\* Lines 441-447: serial.Serial(...) opens the port or raises.
UfOpenSerial ==
  /\ pc = "uf_serial"
  /\ \E opened \in BOOLEAN :
       IF opened
         THEN /\ pico_serial' = "open"
              /\ pc' = "test_serial"
              /\ UNCHANGED retval
         ELSE Return(FALSE) /\ UNCHANGED pico_serial
  /\ UNCHANGED <<cfgVars, vres, i2cVars, orig_fw_version, new_fw_version,
                 rx, attempts, lnum, ret, sl, wait_iter, lineack, slret, log>>

\* ----------------------------------------------- send_line and wait_ack

\* The polls of wait_ack (ack_wait, 300 unless given) and the attempts and the
\* polls per attempt of test_serial (both 50), scaled down.
AckWait      == 2
ProbeAckWait == 1
ProbeAttempts == 1

\* A caller's call self.send_line(line, ack_wait).
SendLineCall(line, ack_wait, to) ==
  /\ sl' = [line |-> line, ack_wait |-> ack_wait, ret |-> to]
  /\ pc' = "send_line"

\* return <b> of send_line: the last entry of log gets the answer.
SendLineReturn(b, entries) ==
  /\ slret' = b
  /\ log' = [entries EXCEPT ![Len(entries)].acked = IF b THEN "yes" ELSE "no"]
  /\ pc' = "sl_done"

\* Lines 559-561.  "for line in self.pico_serial: pass" reads every waiting
\* line into the name `line`, the parameter: with nothing waiting the parameter
\* keeps its value and is written; with lines waiting `line` is the last of them,
\* a bytes object under python3, where line.encode() raises and the except
\* clause returns False, and a str under python2, which is written in place of
\* the parameter.  A cooperative device answers what it received with one ACK.
SendLine ==
  /\ pc = "send_line"
  /\ LET entry(w) == [to |-> sl.ret, lnum |-> IF sl.ret \in {"sf_ret", "lsf_ret"} THEN lnum ELSE 0,
                      line |-> sl.line, wrote |-> w, acked |-> "pending",
                      stale |-> 0]
     IN  IF rx = <<>>
           THEN /\ log' = Append(log, entry(<<sl.line>>))
                /\ rx' = IF peer = "cooperative" THEN <<<<ACK>>>> ELSE <<>>
                /\ wait_iter' = 0
                /\ lineack' = FALSE
                /\ pc' = "wait_ack"
                /\ UNCHANGED slret
         ELSE IF pyver = 3
           THEN /\ SendLineReturn(FALSE, Append(log, entry(<<>>)))
                /\ rx' = <<>>
                /\ UNCHANGED <<wait_iter, lineack>>
         ELSE /\ log' = Append(log, entry(<<rx[Len(rx)]>>))
              /\ rx' = <<>>
              /\ wait_iter' = 0
              /\ lineack' = FALSE
              /\ pc' = "wait_ack"
              /\ UNCHANGED slret
  /\ UNCHANGED <<cfgVars, retval, vres, i2cVars, orig_fw_version, new_fw_version,
                 pico_serial, attempts, lnum, ret, sl>>

\* send_line with the device as a process of its own: the flush (lines
\* 559-560) and the write (line 561) are two steps, and a line of the device
\* can arrive between them.  The flush rebinds `line`; the entry of log keeps
\* the line that was asked for.
SendLineFlush ==
  /\ pc = "send_line"
  /\ log' = Append(log, [to |-> sl.ret,
                         lnum |-> IF sl.ret \in {"sf_ret", "lsf_ret"} THEN lnum ELSE 0,
                         line |-> sl.line, wrote |-> <<>>, acked |-> "pending",
                         stale |-> 0])
  /\ sl' = IF rx = <<>> THEN sl ELSE [sl EXCEPT !.line = rx[Len(rx)]]
  /\ rx' = <<>>
  /\ pc' = "sl_write"
  /\ UNCHANGED <<cfgVars, retval, vres, i2cVars, orig_fw_version, new_fw_version,
                 pico_serial, attempts, lnum, ret, wait_iter, lineack, slret>>

\* Line 561-563: line.encode() raises under python3 when `line` was rebound to
\* received bytes; otherwise the line is written, with `stale` lines of the
\* device waiting unread, and wait_ack begins.
SendLineWrite ==
  /\ pc = "sl_write"
  /\ IF sl.line # log[Len(log)].line /\ pyver = 3
       THEN /\ SendLineReturn(FALSE, log)
            /\ UNCHANGED <<rx, wait_iter, lineack>>
       ELSE /\ log' = [log EXCEPT ![Len(log)].wrote = <<sl.line>>,
                                  ![Len(log)].stale = Len(rx)]
            /\ rx' = IF peer = "cooperative" THEN Append(rx, <<ACK>>) ELSE rx
            /\ wait_iter' = 0
            /\ lineack' = FALSE
            /\ pc' = "wait_ack"
            /\ UNCHANGED slret
  /\ UNCHANGED <<cfgVars, retval, vres, i2cVars, orig_fw_version, new_fw_version,
                 pico_serial, attempts, lnum, ret, sl>>

\* line.strip()[0] == 6, or ord(line.strip()[0]) == 6: an IndexError on an
\* empty line is swallowed.
IsAckLine(chunk) == Strip(chunk) # <<>> /\ Strip(chunk)[1] = ACK

\* The index of the first waiting line that acknowledges, 0 if none does.
FirstAck(buf) ==
  IF \E k \in 1..Len(buf) : IsAckLine(buf[k])
    THEN CHOOSE k \in 1..Len(buf) :
           IsAckLine(buf[k]) /\ \A j \in 1..(k - 1) : ~IsAckLine(buf[j])
    ELSE 0

\* A slip: one poll too many.
PollsLeftOffByOne(n, ack_wait) == n <= ack_wait

\* Line 573: while wait_iter < ack_wait.
PollsLeft(n, ack_wait) == n < ack_wait

\* A slip: the count of polls stands still.
WaitIterStuck(n) == n

\* Line 591: wait_iter += 1.
WaitIterNext(n) == n + 1

\* Lines 573-595: one pass of "while wait_iter < ack_wait".  The waiting lines
\* are read in order; the first that acknowledges ends the wait and leaves the
\* lines behind it unread; with none, wait_iter += 1 after all were read.
WaitAckPoll ==
  /\ pc = "wait_ack"
  /\ PollsLeft(wait_iter, sl.ack_wait)
  /\ IF FirstAck(rx) # 0
       THEN /\ lineack' = TRUE
            /\ rx' = SubSeq(rx, FirstAck(rx) + 1, Len(rx))
            /\ SendLineReturn(TRUE, log)
            /\ UNCHANGED wait_iter
       ELSE /\ rx' = <<>>
            /\ wait_iter' = WaitIterNext(wait_iter)
            /\ UNCHANGED <<pc, lineack, slret, log>>
  /\ UNCHANGED <<cfgVars, retval, vres, i2cVars, orig_fw_version, new_fw_version,
                 pico_serial, attempts, lnum, ret, sl>>

\* Lines 596-597: the polls are used up, return lineack.
WaitAckTimeout ==
  /\ pc = "wait_ack"
  /\ ~PollsLeft(wait_iter, sl.ack_wait)
  /\ SendLineReturn(lineack, log)
  /\ UNCHANGED <<cfgVars, retval, vres, i2cVars, orig_fw_version, new_fw_version,
                 pico_serial, rx, attempts, lnum, ret, sl, wait_iter, lineack>>

\* The device sends a line while the handshake runs.
PeerSend ==
  /\ peer \in {"free", "noisy"}
  /\ pico_serial = "open"
  /\ pc \in {"test_serial", "ts_loop", "send_line", "sl_write", "wait_ack", "sl_done",
             "send_file", "sf_loop", "legacy_probe", "legacy_send_file", "lsf_loop"}
  /\ Len(rx) < MaxRx
  /\ \E c \in (IF peer = "noisy" THEN NoisyChunks ELSE Chunks) : rx' = Append(rx, c)
  /\ UNCHANGED <<cfgVars, pc, retval, vres, i2cVars, orig_fw_version, new_fw_version,
                 pico_serial, attempts, lnum, ret, sl, wait_iter, lineack, slret, log>>

\* ------------------------------------------------------------ test_serial

\* Line 482: attempts = 50.
TestSerial ==
  /\ pc = "test_serial"
  /\ attempts' = ProbeAttempts
  /\ pc' = "ts_loop"
  /\ UNCHANGED <<cfgVars, retval, vres, i2cVars, orig_fw_version, new_fw_version,
                 pico_serial, rx, lnum, ret, sl, wait_iter, lineack, slret, log>>

\* Lines 483-484 and 488, 452-454: the next probe, or False once attempts is 0,
\* on which upload_firmware returns False.
TsLoop ==
  /\ pc = "ts_loop"
  /\ IF attempts > 0
       THEN SendLineCall(ProbeLine, ProbeAckWait, "ts_ret") /\ UNCHANGED retval
       ELSE Return(FALSE) /\ UNCHANGED sl
  /\ UNCHANGED <<cfgVars, vres, i2cVars, orig_fw_version, new_fw_version,
                 pico_serial, rx, attempts, lnum, ret, wait_iter, lineack, slret, log>>

\* Lines 484-487: an acknowledged probe ends test_serial with True.
TsRet ==
  /\ pc = "sl_done" /\ sl.ret = "ts_ret"
  /\ IF slret
       THEN pc' = "send_file" /\ UNCHANGED attempts
       ELSE pc' = "ts_loop" /\ attempts' = attempts - 1
  /\ sl' = NoLine
  /\ UNCHANGED <<cfgVars, retval, vres, i2cVars, orig_fw_version, new_fw_version,
                 pico_serial, rx, lnum, ret, wait_iter, lineack, slret, log>>

\* -------------------------------------------------------------- send_file

\* Lines 534-536.
SendFile ==
  /\ pc = "send_file"
  /\ ret' = TRUE
  /\ lnum' = 0
  /\ pc' = "sf_loop"
  /\ UNCHANGED <<cfgVars, retval, vres, i2cVars, orig_fw_version, new_fw_version,
                 pico_serial, rx, attempts, sl, wait_iter, lineack, slret, log>>

\* Lines 537-540: the next line of the file is sent as line.strip()+"\r"; the
\* loop ends with the file.
SfLoop ==
  /\ pc = "sf_loop"
  /\ IF lnum < Len(args.fw_file)
       THEN /\ lnum' = lnum + 1
            /\ SendLineCall(Strip(args.fw_file[lnum + 1]) \o <<"\r">>, AckWait, "sf_ret")
       ELSE /\ pc' = "sf_end"
            /\ UNCHANGED <<lnum, sl>>
  /\ UNCHANGED <<cfgVars, retval, vres, i2cVars, orig_fw_version, new_fw_version,
                 pico_serial, rx, attempts, ret, wait_iter, lineack, slret, log>>

\* A slip: no break after a line that was not acknowledged.
SfAfterLineNoBreak(acked, raw) ==
  IF acked /\ Slice(raw, 7, 9) = <<"0", "1">> THEN "sf_end" ELSE "sf_loop"

\* Lines 540-549: where the loop goes after send_line returned: it ends (break)
\* on a line that was not acknowledged and on a line whose characters 7..8, as
\* read from the file, are "01".
SfAfterLine(acked, raw) ==
  IF ~acked THEN "sf_end"
  ELSE IF Slice(raw, 7, 9) = <<"0", "1">> THEN "sf_end"
  ELSE "sf_loop"

\* Line 526: the number of lines of the file that start with ':'.
RecordLines(f) == Cardinality({k \in 1..Len(f) : f[k] # <<>> /\ f[k][1] = ":"})

\* Lines 528-531 and 545-546: bar.next() runs unless verbose >= 2.  The
\* fallback simpleBar (lines 654-673) only counts and prints.  The Bar of the
\* progress module is given max=fw_lines_total and divides by it to draw
\* itself; whether it guards against max = 0 depends on the release of the
\* module that is installed, so with max = 0 its next() may raise.
BarNextMayRaise ==
  capability.progress /\ args.verbose < 2 /\ RecordLines(args.fw_file) = 0

\* Lines 540-549: a line that was not acknowledged sets ret = False; an
\* exception of bar.next() is caught at line 552 and send_file returns False.
SfRet ==
  /\ pc = "sl_done" /\ sl.ret = "sf_ret"
  /\ \E raised \in (IF slret /\ BarNextMayRaise THEN BOOLEAN ELSE {FALSE}) :
       IF raised
         THEN ret' = FALSE /\ pc' = "sf_end"
         ELSE /\ ret' = (IF ~slret THEN FALSE ELSE ret)
              /\ pc' = SfAfterLine(slret, args.fw_file[lnum])
  /\ sl' = NoLine
  /\ UNCHANGED <<cfgVars, retval, vres, i2cVars, orig_fw_version, new_fw_version,
                 pico_serial, rx, attempts, lnum, wait_iter, lineack, slret, log>>

\* ------------------------------------------- upload_firmware, after send_file

\* A slip: skip_i2c_reset is not looked at.
ResetUnlessBusAbsent == capability.smbus

\* Lines 460-461: the factory reset is wanted.
ResetWanted == capability.smbus /\ ~args.skip_i2c_reset

\* Lines 457-465 and 477: send_file returned; on True the factory reset.
UfSent ==
  /\ pc = "sf_end"
  /\ IF ~ret
       THEN Return(FALSE) /\ UNCHANGED i2c
     ELSE IF ResetWanted
       THEN I2CCall("wb", DevControl, RegMode, FactoryReset, "uf_reset_ret")
            /\ UNCHANGED retval
     ELSE pc' = "uf_new_fw" /\ UNCHANGED <<retval, i2c>>
  /\ UNCHANGED <<cfgVars, vres, i2cbus, i2cret, busLog, orig_fw_version,
                 new_fw_version, serialVars>>

UfResetDone ==
  /\ pc = "i2c_done" /\ i2c.ret = "uf_reset_ret"
  /\ IF WriteFailed(i2cret)
       THEN Return(FALSE)
       ELSE pc' = "uf_new_fw" /\ UNCHANGED retval
  /\ i2c' = NoCall
  /\ i2cret' = RetNone
  /\ UNCHANGED <<cfgVars, vres, i2cbus, busLog, orig_fw_version,
                 new_fw_version, serialVars>>

\* Lines 467-476: the read of the new firmware's version.
UfNewVersion ==
  /\ pc = "uf_new_fw"
  /\ IF capability.smbus /\ ~args.skip_i2c_fw
       THEN I2CCall("rw", DevStatus, RegFwVersion, NoData, "uf_newfw_ret")
            /\ UNCHANGED retval
       ELSE Return(TRUE) /\ UNCHANGED i2c
  /\ UNCHANGED <<cfgVars, vres, i2cbus, i2cret, busLog, orig_fw_version,
                 new_fw_version, serialVars>>

\* A slip: the version read before the update is reported.
StaleVersion(r) == orig_fw_version

\* Line 469: self.new_fw_version is what the read returned.
ReportedVersion(r) == r.val

UfNewVersionRead ==
  /\ pc = "i2c_done" /\ i2c.ret = "uf_newfw_ret"
  /\ IF i2cret.kind = "None"
       THEN Return(FALSE) /\ UNCHANGED new_fw_version
       ELSE Return(TRUE) /\ new_fw_version' = ReportedVersion(i2cret)
  /\ i2c' = NoCall
  /\ i2cret' = RetNone
  /\ UNCHANGED <<cfgVars, vres, i2cbus, busLog, orig_fw_version, serialVars>>

\* ------------------------------------------------------- specification

I2CNext ==
  \/ I2CEnter \/ I2CAttemptOk \/ I2CAttemptIOError \/ I2CAttemptError \/ I2CGiveUp

Next ==
  \/ GetCapabilities \/ GcModel \/ GcDone
  \/ I2CNext
  \/ UploadFirmware \/ UfReadVersion \/ UfVersionRead \/ UfBootloader
  \/ UfBootloaderSet \/ UfOpenSerial
  \/ TestSerial \/ TsLoop \/ TsRet
  \/ SendLine \/ WaitAckPoll \/ WaitAckTimeout
  \/ SendFile \/ SfLoop \/ SfRet
  \/ UfSent \/ UfResetDone \/ UfNewVersion \/ UfNewVersionRead

Spec == Init /\ [][Next]_vars

\* ------------------------------------------- the upload without the bus

\* Runs without smbus: every file of up to MaxLines lines, validated or not,
\* against a device that acknowledges every line and against one that sends
\* what it likes when it likes.
InitSend ==
  /\ pyver \in {2, 3}
  /\ args \in [fw_file : Files, skip_fw_verify : BOOLEAN, fw_verify_only : {FALSE},
               skip_i2c_fw : {FALSE}, skip_i2c_bl : {FALSE}, skip_i2c_reset : {FALSE},
               i2c_bl_local : {FALSE}, verbose : {0}]
  /\ capability = [serial |-> TRUE, smbus |-> FALSE, progress |-> FALSE]
  /\ peer \in {"cooperative", "free"}
  /\ InitRest

NextSend ==
  \/ GetCapabilities
  \/ UploadFirmware \/ UfReadVersion \/ UfBootloader \/ UfOpenSerial
  \/ TestSerial \/ TsLoop \/ TsRet
  \/ SendLine \/ WaitAckPoll \/ WaitAckTimeout \/ PeerSend
  \/ SendFile \/ SfLoop \/ SfRet
  \/ UfSent \/ UfNewVersion

SpecSend == InitSend /\ [][NextSend]_vars

\* --------------------------------------- the upload and the progress bar

\* Runs without smbus and without validation on every file of up to MaxLines
\* lines, with the progress module or without it, silenced or not.
InitBar ==
  /\ pyver \in {2, 3}
  /\ args \in [fw_file : Files, skip_fw_verify : {TRUE}, fw_verify_only : {FALSE},
               skip_i2c_fw : {FALSE}, skip_i2c_bl : {FALSE}, skip_i2c_reset : {FALSE},
               i2c_bl_local : {FALSE}, verbose : {0, 2}]
  /\ capability \in [serial : {TRUE}, smbus : {FALSE}, progress : BOOLEAN]
  /\ peer \in {"cooperative", "free"}
  /\ InitRest

SpecBar == InitBar /\ [][NextSend]_vars

\* ------------------------------ the handshake with a concurrent device

\* Runs without smbus on the image of one data record and the end-of-file
\* record, the device free to send between any two steps of the program,
\* between the flush and the write of send_line too.
InitRace ==
  /\ pyver \in {2, 3}
  /\ args = [fw_file |-> <<DataLine, EofLine>>, skip_fw_verify |-> FALSE,
             fw_verify_only |-> FALSE, skip_i2c_fw |-> FALSE, skip_i2c_bl |-> FALSE,
             skip_i2c_reset |-> FALSE, i2c_bl_local |-> FALSE, verbose |-> 0]
  /\ capability = [serial |-> TRUE, smbus |-> FALSE, progress |-> FALSE]
  /\ peer = "free"
  /\ InitRest

NextRace ==
  \/ GetCapabilities
  \/ UploadFirmware \/ UfReadVersion \/ UfBootloader \/ UfOpenSerial
  \/ TestSerial \/ TsLoop \/ TsRet
  \/ SendLineFlush \/ SendLineWrite \/ WaitAckPoll \/ WaitAckTimeout \/ PeerSend
  \/ SendFile \/ SfLoop \/ SfRet
  \/ UfSent \/ UfNewVersion

SpecRace == InitRace /\ [][NextRace]_vars

\* ------------------------------------------- the legacy uploader, upis_fw.py

\* wait_ack of upis_fw.py counts wait_iter down from 100, scaled down.  Its
\* send_line and wait_ack (lines 175-210) are those of pico.py with this one
\* budget: the same flush into `line`, the same test of the first byte of each
\* received line, one count per pass without acknowledgement.
LegacyAckWait == 1

\* upis_fw.py lines 120-124: serial.Serial(...) opens the port or raises.
LegacyOpenSerial ==
  /\ pc = "legacy_open"
  /\ \E opened \in BOOLEAN :
       IF opened
         THEN /\ pico_serial' = "open"
              /\ pc' = "legacy_probe"
              /\ UNCHANGED retval
         ELSE Return(FALSE) /\ UNCHANGED pico_serial
  /\ UNCHANGED <<cfgVars, vres, i2cVars, orig_fw_version, new_fw_version,
                 rx, attempts, lnum, ret, sl, wait_iter, lineack, slret, log>>

\* upis_fw.py lines 126-130: one probe; without acknowledgement the run ends
\* and nothing is reported.
LegacyProbe ==
  /\ pc = "legacy_probe"
  /\ SendLineCall(ProbeLine, LegacyAckWait, "lp_ret")
  /\ UNCHANGED <<cfgVars, retval, vres, i2cVars, orig_fw_version, new_fw_version,
                 pico_serial, rx, attempts, lnum, ret, wait_iter, lineack, slret, log>>

LpRet ==
  /\ pc = "sl_done" /\ sl.ret = "lp_ret"
  /\ IF slret
       THEN pc' = "legacy_send_file" /\ UNCHANGED retval
       ELSE Return(FALSE)
  /\ sl' = NoLine
  /\ UNCHANGED <<cfgVars, vres, i2cVars, orig_fw_version, new_fw_version,
                 pico_serial, rx, attempts, lnum, ret, wait_iter, lineack, slret, log>>

\* upis_fw.py lines 159-160.
LegacySendFile ==
  /\ pc = "legacy_send_file"
  /\ lnum' = 0
  /\ pc' = "lsf_loop"
  /\ UNCHANGED <<cfgVars, retval, vres, i2cVars, orig_fw_version, new_fw_version,
                 pico_serial, rx, attempts, ret, sl, wait_iter, lineack, slret, log>>

\* upis_fw.py lines 161-163.
LsfLoop ==
  /\ pc = "lsf_loop"
  /\ IF lnum < Len(args.fw_file)
       THEN /\ lnum' = lnum + 1
            /\ SendLineCall(Strip(args.fw_file[lnum + 1]) \o <<"\r">>,
                            LegacyAckWait, "lsf_ret")
       ELSE /\ pc' = "lsf_end"
            /\ UNCHANGED <<lnum, sl>>
  /\ UNCHANGED <<cfgVars, retval, vres, i2cVars, orig_fw_version, new_fw_version,
                 pico_serial, rx, attempts, ret, wait_iter, lineack, slret, log>>

\* upis_fw.py lines 163-168: break on a line that was not acknowledged and on
\* a line whose characters 7..8 are "01"; nothing records which it was.
LsfRet ==
  /\ pc = "sl_done" /\ sl.ret = "lsf_ret"
  /\ pc' = (IF SfAfterLine(slret, args.fw_file[lnum]) = "sf_end"
              THEN "lsf_end" ELSE "lsf_loop")
  /\ sl' = NoLine
  /\ UNCHANGED <<cfgVars, retval, vres, i2cVars, orig_fw_version, new_fw_version,
                 pico_serial, rx, attempts, lnum, ret, wait_iter, lineack, slret, log>>

\* upis_fw.py lines 169-170 and 132-133: return True, on which the run logs
\* 'Firmware update completed'.
LsfEnd ==
  /\ pc = "lsf_end"
  /\ ret' = TRUE
  /\ Return(TRUE)
  /\ UNCHANGED <<cfgVars, vres, i2cVars, orig_fw_version, new_fw_version,
                 pico_serial, rx, attempts, lnum, sl, wait_iter, lineack, slret, log>>

\* The legacy run from the open of the serial port on (upis_fw.py line 120),
\* on every file of up to MaxLines lines.
InitLegacy ==
  /\ pyver \in {2, 3}
  /\ args \in [fw_file : Files, skip_fw_verify : {TRUE}, fw_verify_only : {FALSE},
               skip_i2c_fw : {FALSE}, skip_i2c_bl : {FALSE}, skip_i2c_reset : {FALSE},
               i2c_bl_local : {FALSE}, verbose : {0}]
  /\ capability = [serial |-> TRUE, smbus |-> FALSE, progress |-> FALSE]
  /\ peer \in {"cooperative", "free"}
  /\ pc = "legacy_open"
  /\ i2cbus = "None"
  /\ i2c = NoCall
  /\ InitData

NextLegacy ==
  \/ LegacyOpenSerial \/ LegacyProbe \/ LpRet \/ LegacySendFile \/ LsfLoop \/ LsfRet \/ LsfEnd
  \/ SendLine \/ WaitAckPoll \/ WaitAckTimeout \/ PeerSend

SpecLegacy == InitLegacy /\ [][NextLegacy]_vars

\* ------------------------------------------------ runs that must end

\* Update runs with the bus at hand and nothing skipped, against a device
\* that acknowledges every line, one that never answers and one that sends
\* what it likes when it likes.  The program is single-threaded and blocks
\* only in bounded sleeps and reads with a timeout, so it always takes its
\* next step; nothing is assumed of the device.
InitLive ==
  /\ pyver \in {2, 3}
  /\ args = [fw_file |-> <<DataLine, EofLine>>, skip_fw_verify |-> FALSE,
             fw_verify_only |-> FALSE, skip_i2c_fw |-> FALSE, skip_i2c_bl |-> FALSE,
             skip_i2c_reset |-> FALSE, i2c_bl_local |-> FALSE, verbose |-> 0]
  /\ capability = [serial |-> TRUE, smbus |-> TRUE, progress |-> FALSE]
  /\ peer \in {"cooperative", "silent", "free"}
  /\ InitRest

NextLive == Next \/ PeerSend

SpecLive == InitLive /\ [][NextLive]_vars /\ WF_vars(Next)

\* ---------------------------------- the handshake with a noisy device

\* Runs without smbus on a one-record file against a device whose lines may
\* hold other bytes around the ACK byte.
InitAck ==
  /\ pyver \in {2, 3}
  /\ args = [fw_file |-> <<EofLine>>, skip_fw_verify |-> FALSE,
             fw_verify_only |-> FALSE, skip_i2c_fw |-> FALSE, skip_i2c_bl |-> FALSE,
             skip_i2c_reset |-> FALSE, i2c_bl_local |-> FALSE, verbose |-> 0]
  /\ capability = [serial |-> TRUE, smbus |-> FALSE, progress |-> FALSE]
  /\ peer = "noisy"
  /\ InitRest

SpecAck == InitAck /\ [][NextSend]_vars

\* ------------------------------------- run_i2c_with_retry on its own

MaxTries == 3

\* A call of run_i2c_with_retry with max_tries given, the bus handle open or
\* not yet.
InitI2C ==
  /\ pyver \in {2, 3}
  /\ args = [fw_file |-> <<DataLine, EofLine>>, skip_fw_verify |-> FALSE,
             fw_verify_only |-> FALSE, skip_i2c_fw |-> FALSE, skip_i2c_bl |-> FALSE,
             skip_i2c_reset |-> FALSE, i2c_bl_local |-> FALSE, verbose |-> 0]
  /\ capability = [serial |-> TRUE, smbus |-> TRUE, progress |-> FALSE]
  /\ peer = "silent"
  /\ pc = "i2c_enter"
  /\ i2cbus \in {"None", "open"}
  /\ \E op \in {"rb", "rw", "wb", "ww", "xx"}, data \in {NoData, 0, RemoteBL},
        n \in 0..MaxTries :
        i2c = Frame(op, DevControl, RegMode, data, n, "caller")
  /\ InitData

SpecI2C == InitI2C /\ [][I2CNext]_vars

\* ------------------------------------------- validate_file on its own

ValLines == {DataLine, EofLine, BadSum, BadLen, SpEofLine, OddLine, JunkLine}

\* The position in a raw line of digit n (1 or 2) of the checksum byte, the
\* last two characters of the stripped line.
ChecksumPos(raw, n) == (Len(raw) - Len(LStrip(raw))) + Len(Strip(raw)) - 2 + n

\* The file with character p of line k replaced by c.
WithChar(f, k, p, c) == [f EXCEPT ![k] = [@ EXCEPT ![p] = c]]

\* A verify-only run on every file of up to MaxLines lines.
InitValidate ==
  /\ pyver \in {2, 3}
  /\ args \in [fw_file : SeqsUpTo(ValLines, MaxLines), skip_fw_verify : {FALSE},
               fw_verify_only : {TRUE}, skip_i2c_fw : {FALSE}, skip_i2c_bl : {FALSE},
               skip_i2c_reset : {FALSE}, i2c_bl_local : {FALSE}, verbose : {0}]
  /\ capability = [serial |-> TRUE, smbus |-> FALSE, progress |-> FALSE]
  /\ peer = "silent"
  /\ InitRest

\* After a run that found the file valid: a second run on the file with one
\* digit of the checksum byte of record k given another value.
ChangeChecksumDigit ==
  /\ pc = "done" /\ vres.ok /\ mut.kind = "none"
  /\ \E k \in {j \in 1..Len(args.fw_file) : ReMatch(Strip(args.fw_file[j]))},
        n \in {1, 2}, d \in 1..16 :
       LET raw == args.fw_file[k]
           p   == ChecksumPos(raw, n)
           f   == WithChar(args.fw_file, k, p, HexUpper[d])
       IN  /\ HexVal(raw[p]) # d - 1
           /\ mut' = [kind |-> "checksum", k |-> k, file |-> f,
                      res |-> validate_file(f, pyver)]
  /\ UNCHANGED <<pyver, args, capability, version_reg, peer, pc, retval, vres, i2cVars,
                 orig_fw_version, new_fw_version, serialVars>>

\* After a run that found the file valid: a second run on the first n lines.
TruncateFile ==
  /\ pc = "done" /\ vres.ok /\ mut.kind = "none"
  /\ \E n \in 0..(Len(args.fw_file) - 1) :
       LET f == SubSeq(args.fw_file, 1, n)
       IN  mut' = [kind |-> "truncate", k |-> n, file |-> f,
                  res |-> validate_file(f, pyver)]
  /\ UNCHANGED <<pyver, args, capability, version_reg, peer, pc, retval, vres, i2cVars,
                 orig_fw_version, new_fw_version, serialVars>>

NextValidate ==
  \/ GetCapabilities \/ UploadFirmware \/ ChangeChecksumDigit \/ TruncateFile

SpecValidate == InitValidate /\ [][NextValidate]_vars

\* ------------------------------------------------------------- claims

\* A record whose type field is 01, as validate_file reads it.
IsType01(text) == ReMatch(Strip(text)) /\ Group4(Strip(text)) = <<"0", "1">>

\* The number of the first line of f that is a record of type 01, 0 if none.
FirstType01(f) ==
  IF \E k \in 1..Len(f) : IsType01(f[k])
    THEN CHOOSE k \in 1..Len(f) : IsType01(f[k]) /\ \A j \in 1..(k - 1) : ~IsType01(f[j])
    ELSE 0

\* The calls of send_line made by send_file, in order.
FileLog == SelectSeq(log, LAMBDA e : e.to = "sf_ret")

\* C1: once a line of the file was not acknowledged, send_file has sent its
\* last line: it is at that line, it ends with ret = False, upload_firmware
\* returns False, and no later line is ever written.
C1_UnackedLineEndsUpload ==
  \A i \in 1..Len(log) :
    (log[i].to = "sf_ret" /\ log[i].acked = "no")
      => /\ i = Len(log)
         /\ log[i].lnum = lnum
         /\ pc \in {"sl_done", "sf_end", "done"}
         /\ (pc # "sl_done" => ret = FALSE)
         /\ (pc = "done" => retval = "False")

\* C1, its case: line k was written and not acknowledged, the file has later
\* lines, and the run has ended.
C1_Witness ==
  /\ pc = "done"
  /\ \E i \in 1..Len(log) :
       /\ log[i].to = "sf_ret" /\ log[i].acked = "no"
       /\ log[i].wrote = <<log[i].line>>
       /\ log[i].lnum < Len(args.fw_file)

\* C2: whatever waits in the inbound buffer when send_line is called, what
\* send_line writes is exactly the line it was given.
C2_SendLineWritesItsLine ==
  \A i \in 1..Len(log) : log[i].wrote = <<log[i].line>>

\* C3: after a validation that was not skipped and succeeded, every line
\* send_file sends is one of the lines validate_file examined: none lies
\* behind the line at which validate_file stopped.
C3_OnlyValidatedLinesSent ==
  (~args.skip_fw_verify /\ vres.ok)
    => \A i \in 1..Len(log) : log[i].to = "sf_ret" => log[i].lnum <= vres.lnum

\* C4: send_file ends with ret = True only after a record of type 01 was
\* written and acknowledged.
C4_SuccessOnlyAfterTerminalRecord ==
  (pc = "sf_end" /\ ret)
    => \E i \in 1..Len(log) :
         /\ log[i].to = "sf_ret" /\ log[i].acked = "yes"
         /\ log[i].wrote = <<log[i].line>>
         /\ IsType01(log[i].line)

\* C5: with a device that acknowledges every line and a file with a record of
\* type 01, send_file writes the lines 1 .. first record of type 01, each once
\* and in order, each after the one before was acknowledged, and returns True.
C5_CooperativeUploadSendsThroughEof ==
  LET f == args.fw_file
      e == FirstType01(f)
  IN  (peer = "cooperative" /\ e # 0)
        => /\ \A i \in 1..Len(FileLog) :
                /\ i <= e
                /\ FileLog[i].lnum = i
                /\ FileLog[i].wrote = <<Strip(f[i]) \o <<"\r">>>>
                /\ (i < Len(FileLog) => FileLog[i].acked = "yes")
           /\ (pc = "sf_end" => (ret /\ Len(FileLog) = e))

\* C6: a call of run_i2c_with_retry that got past its entry checks with
\* max_tries = N never attempts more than N bus operations; when every attempt
\* raised IOError it made exactly N and returns None; otherwise the first
\* attempt that did not raise IOError is the last one and, having succeeded,
\* gives the result (the value read, or True for a write).
C6_RetryCount ==
  LET o == i2c.outcomes
      allFault == \A j \in 1..Len(o) : o[j] = "IOError"
  IN  (i2c.ret = "caller" /\ pc \in {"i2c_loop", "i2c_done"})
        => /\ Len(o) <= i2c.given
           /\ \A j \in 1..(Len(o) - 1) : o[j] = "IOError"
           /\ (pc = "i2c_done" /\ i2cbus = "open" /\ i2c.op \in {"rb", "rw", "wb", "ww"}
                 /\ ~(i2c.op \in {"wb", "ww"} /\ i2c.data = NoData))
                => /\ allFault => (Len(o) = i2c.given /\ i2cret = RetNone)
                   /\ (~allFault /\ o[Len(o)] = "ok")
                        => i2cret.kind = (IF i2c.op \in {"rb", "rw"} THEN "value" ELSE "True")
                   /\ (~allFault /\ o[Len(o)] = "error") => i2cret = RetNone

\* C6, its case: a call with max_tries = N >= 2 has ended after N attempts
\* that all raised IOError.
C6_Witness ==
  /\ pc = "i2c_done" /\ i2c.ret = "caller"
  /\ i2c.given >= 2
  /\ Len(i2c.outcomes) = i2c.given
  /\ \A j \in 1..Len(i2c.outcomes) : i2c.outcomes[j] = "IOError"

\* Nothing of upload_firmware has touched the bus or the serial port.
NoHardwareTouched ==
  /\ \A i \in 1..Len(busLog) : busLog[i].to \in {"gc_model", "gc_done"}
  /\ i2c = NoCall
  /\ pico_serial = "None"
  /\ log = <<>>
  /\ orig_fw_version = NoData /\ new_fw_version = NoData

\* C7: when the validation is not skipped and fails, upload_firmware has
\* returned False without a bus call, without opening the serial port and
\* without writing to it.
C7_FailedValidationTouchesNothing ==
  (~args.skip_fw_verify /\ pc \notin {"get_capabilities", "upload_firmware"}
     /\ i2c.ret \notin {"gc_model", "gc_done"}
     /\ ~validate_file(args.fw_file, pyver).ok /\ capability.serial)
    => (pc = "done" /\ retval = "False" /\ NoHardwareTouched)

\* C7, its case: a run with the bus at hand whose file failed the checksum
\* test has ended.
C7_Witness ==
  /\ pc = "done" /\ ~args.skip_fw_verify /\ capability.smbus /\ capability.serial
  /\ vres.why = "checksum"
  /\ Len(busLog) = 2

\* The declared byte count of a record equals the length of its payload, and
\* the bytes of the record sum to 0 modulo 256.
CountOk(line) == Len(line) - 11 = 2 * HexInt(Slice(line, 1, 3))
SumOk(line) == PairSum(line, 1) % 256 = 0

\* C8: for a file whose lines all match the record grammar, validate_file
\* succeeds exactly when a record of type 01 is reached and every line up to
\* it has the declared byte count and the byte sum 0.
C8_ValidIffRecordsSound ==
  LET f == args.fw_file
      e == FirstType01(f)
  IN  (pc = "done" /\ \A k \in 1..Len(f) : ReMatch(Strip(f[k])))
        => (vres.ok <=> (e # 0 /\ \A k \in 1..e : CountOk(Strip(f[k])) /\ SumOk(Strip(f[k]))))

\* What validate_file reports for a bad checksum on line k.
ChecksumFailure(k) == [ok |-> FALSE, why |-> "checksum", lnum |-> k]

\* C9, as amended: in a file that validates, another value for one digit of
\* the checksum byte of a record up to and including the first record of type
\* 01 makes validate_file fail with the checksum error at that record's line.
C9_ChangedChecksumFailsAtItsLine ==
  (mut.kind = "checksum" /\ mut.k <= vres.lnum) => mut.res = ChecksumFailure(mut.k)

\* C9, as claimed: the same of any record of the file.
C9_AnyRecord ==
  mut.kind = "checksum" => mut.res = ChecksumFailure(mut.k)

\* C9, its case: the checksum of the second record, where validation stopped,
\* was changed.
C9_Witness ==
  mut.kind = "checksum" /\ mut.k = 2 /\ vres.lnum = 2

\* C10: a file that validates, cut to a number of lines that ends before the
\* record of type 01 at which validation stopped, fails with the missing
\* end-of-file outcome after all its lines were read.
C10_TruncatedFileMissesEof ==
  (mut.kind = "truncate" /\ mut.k < vres.lnum)
    => mut.res = [ok |-> FALSE, why |-> "noeof", lnum |-> mut.k]

\* C10, its case: a two-line file cut to its first line.
C10_Witness ==
  mut.kind = "truncate" /\ mut.k = 1 /\ vres.lnum = 2

\* C11: with fw_verify_only set and a file that validates, upload_firmware
\* has returned True without a bus call, without opening the serial port and
\* without writing to it, whatever modules are at hand.
C11_VerifyOnlyTouchesNothing ==
  (args.fw_verify_only /\ pc \notin {"get_capabilities", "upload_firmware"}
     /\ i2c.ret \notin {"gc_model", "gc_done"}
     /\ validate_file(args.fw_file, pyver).ok)
    => (pc = "done" /\ retval = "True" /\ NoHardwareTouched)

\* C12: when the read of the firmware version before the update returns None,
\* upload_firmware goes on to the bootloader mode switch; it does not return.
C12_VersionReadBestEffort ==
  [][(pc = "i2c_done" /\ i2c.ret = "uf_fw_ret" /\ i2cret.kind = "None")
       => (pc' = "uf_i2c_bl" /\ retval' = retval)]_vars

\* C13: when upload_firmware has returned, the serial port and the bus handle
\* are not open.
C13_ResourcesClosedOnReturn ==
  pc = "done" => (pico_serial # "open" /\ i2cbus # "open")

\* The calls of run_i2c_with_retry that ended and went back to `to`.
BusCalls(to) == SelectSeq(busLog, LAMBDA e : e.to = to)

\* A call of run_i2c_with_retry for `to` has begun or ended.
Started(to) == i2c.ret = to \/ BusCalls(to) # <<>>

\* The calls of send_line made by test_serial, in order.
ProbeLog == SelectSeq(log, LAMBDA e : e.to = "ts_ret")

\* The stage of the update a bus call belongs to: before the mode switch, the
\* mode switch, the factory reset, the read of the new version.
BusStage(to) ==
  CASE to = "uf_bl_ret" -> 1
    [] to = "uf_reset_ret" -> 5
    [] to = "uf_newfw_ret" -> 6
    [] OTHER -> 0

RECURSIVE CountOkAttempts(_)
CountOkAttempts(o) ==
  IF o = <<>> THEN 0
  ELSE (IF Head(o) = "ok" THEN 1 ELSE 0) + CountOkAttempts(Tail(o))

\* C16: with the bus at hand and skip_i2c_bl not set, the serial port is opened
\* only after exactly one call wrote the mode register (device 0x6b, register
\* 0x00) with success, by one successful byte write of 0xff if i2c_bl_local is
\* set and of 0xbb otherwise; a call that failed ends the run with False, the
\* serial port never opened.
C16_ModeSwitchBeforeSerial ==
  LET bl == BusCalls("uf_bl_ret")
      value == IF args.i2c_bl_local THEN 255 ELSE 187
  IN  /\ Len(bl) <= 1
      /\ Started("uf_bl_ret") => (capability.smbus /\ ~args.skip_i2c_bl)
      /\ i2c.ret = "uf_bl_ret"
           => /\ i2c.op = "wb" /\ i2c.device = 107 /\ i2c.address = 0
              /\ i2c.data = value
              /\ pico_serial = "None" /\ log = <<>>
              /\ pc = "i2c_done"
                   => CountOkAttempts(i2c.outcomes)
                        = (IF i2cret.kind = "True" THEN 1 ELSE 0)
      /\ ((pc = "uf_serial" \/ pico_serial = "open")
            /\ capability.smbus /\ ~args.skip_i2c_bl)
           => /\ Len(bl) = 1
              /\ bl[1].kind = "True" /\ bl[1].touched
              /\ bl[1].op = "wb" /\ bl[1].device = 107 /\ bl[1].address = 0
              /\ bl[1].data = value
      /\ (bl # <<>> /\ bl[1].kind = "None" /\ i2c.ret # "uf_bl_ret")
           => (pc = "done" /\ retval = "False" /\ pico_serial = "None" /\ log = <<>>)

\* C16, its case: the serial port was opened after a successful write of 0xff.
C16_Witness ==
  /\ pico_serial = "open" /\ args.i2c_bl_local
  /\ \E i \in 1..Len(busLog) :
       /\ busLog[i].to = "uf_bl_ret" /\ busLog[i].kind = "True"
       /\ busLog[i].data = LocalBL

\* test_serial has returned False: the run ended with False, the port open and
\* send_file never called.
TestSerialFailed ==
  pc = "done" /\ retval = "False" /\ pico_serial = "open" /\ FileLog = <<>>

\* C17: test_serial writes the probe line at most ProbeAttempts (50) times and
\* nothing else; an acknowledged probe is the last one; it fails after exactly
\* ProbeAttempts probes that were written and not acknowledged; and no line of
\* the file is written unless a probe was acknowledged.
C17_ProbesBeforeUpload ==
  /\ Len(ProbeLog) <= ProbeAttempts
  /\ \A i \in 1..Len(ProbeLog) :
       /\ ProbeLog[i].wrote = <<ProbeLine>>
       /\ (ProbeLog[i].acked = "yes" => i = Len(ProbeLog))
  /\ TestSerialFailed
       => /\ Len(ProbeLog) = ProbeAttempts
          /\ \A i \in 1..Len(ProbeLog) : ProbeLog[i].acked = "no"
  /\ FileLog # <<>>
       => \E i \in 1..Len(ProbeLog) : ProbeLog[i].acked = "yes"

\* C18: wait_ack never makes more than ack_wait polls (AckWait for a line of
\* the file, ProbeAckWait for a probe): it returns False after exactly ack_wait
\* polls none of which met an acknowledgement, and True at the poll that met
\* one, which is at most poll number ack_wait.
C18_WaitAckPolls ==
  (pc \in {"wait_ack", "sl_done"} /\ log[Len(log)].wrote # <<>>)
    => /\ sl.ack_wait = (IF sl.ret = "sf_ret" THEN AckWait ELSE ProbeAckWait)
       /\ wait_iter <= sl.ack_wait
       /\ pc = "sl_done"
            => IF slret THEN lineack /\ wait_iter + 1 <= sl.ack_wait
                        ELSE ~lineack /\ wait_iter = sl.ack_wait

\* C18, its case: a line of the file went without acknowledgement through all
\* its polls.
C18_Witness ==
  /\ pc = "sl_done" /\ sl.ret = "sf_ret" /\ ~slret
  /\ log[Len(log)].wrote # <<>>
  /\ wait_iter = AckWait

\* Some waiting line holds the ACK byte.
HasAckByte(buf) ==
  \E k \in 1..Len(buf) : \E j \in 1..Len(buf[k]) : buf[k][j] = ACK

\* C19: a poll of wait_ack acknowledges the line exactly when a byte of value
\* 6 is among the bytes it receives, whatever other bytes come before it.
C19_AckByteAcknowledges ==
  [][(pc = "wait_ack" /\ wait_iter < sl.ack_wait
        /\ (pc' = "sl_done" \/ wait_iter' = wait_iter + 1))
       => ((pc' = "sl_done" /\ slret') <=> HasAckByte(rx))]_vars

\* C20: upload_firmware without fw_verify_only has returned True only if the
\* validation passed or was skipped, the mode switch was written unless skipped
\* or without bus, the serial port is open, a probe was acknowledged, every
\* line sent was acknowledged and the terminal record was among them, and the
\* factory reset and the read of the new version succeeded unless skipped or
\* without bus.
C20_SuccessNeedsEveryStep ==
  (pc = "done" /\ retval = "True" /\ ~args.fw_verify_only)
    => /\ args.skip_fw_verify \/ validate_file(args.fw_file, pyver).ok
       /\ (capability.smbus /\ ~args.skip_i2c_bl)
            => \E i \in 1..Len(busLog) :
                 busLog[i].to = "uf_bl_ret" /\ busLog[i].kind = "True"
       /\ pico_serial = "open"
       /\ \E i \in 1..Len(ProbeLog) : ProbeLog[i].acked = "yes"
       /\ \A i \in 1..Len(FileLog) : FileLog[i].acked = "yes"
       /\ \E i \in 1..Len(FileLog) :
            FileLog[i].acked = "yes" /\ IsType01(FileLog[i].line)
       /\ (capability.smbus /\ ~args.skip_i2c_reset)
            => \E i \in 1..Len(busLog) :
                 busLog[i].to = "uf_reset_ret" /\ busLog[i].kind = "True"
       /\ (capability.smbus /\ ~args.skip_i2c_fw)
            => \E i \in 1..Len(busLog) :
                 busLog[i].to = "uf_newfw_ret" /\ busLog[i].kind = "value"

\* C21: a call of run_i2c_with_retry for a write without a data value returns
\* None in its first step: the bus handle stays as it was, no bus operation is
\* attempted and max_tries is untouched; with the data value 0 the call goes on
\* to open the bus or to its first attempt.
C21_WriteWithoutDataFailsAtOnce ==
  [][(pc = "i2c_enter" /\ i2c.op \in {"wb", "ww"})
       => /\ i2c.data = NoData
               => /\ pc' = "i2c_done" /\ i2cret' = RetNone
                  /\ i2cbus' = i2cbus
                  /\ i2c'.outcomes = <<>> /\ i2c'.max_tries = i2c.given
          /\ (i2c.data = 0 /\ i2cbus = "open") => pc' = "i2c_loop"
          /\ (i2c.data = 0 /\ i2cbus = "None")
               => (i2cbus' = "open" \/ (pc' = "i2c_done" /\ i2cret' = RetNone))
     ]_vars

\* C21, its case: a byte write without data has returned with the bus handle
\* never opened, although attempts were allowed.
C21_Witness ==
  /\ pc = "i2c_done" /\ i2c.ret = "caller"
  /\ i2c.op = "wb" /\ i2c.data = NoData /\ i2c.given >= 2
  /\ i2cbus = "None" /\ i2c.outcomes = <<>> /\ i2cret = RetNone

\* The number of attempts that raised IOError.
RECURSIVE CountIOErrors(_)
CountIOErrors(o) ==
  IF o = <<>> THEN 0
  ELSE (IF Head(o) = "IOError" THEN 1 ELSE 0) + CountIOErrors(Tail(o))

\* C22: an attempt that raised anything but IOError is the last attempt of its
\* call, which returns None whatever is left of max_tries; and max_tries has
\* gone down by one for each IOError and for nothing else.
C22_OtherErrorAborts ==
  LET o == i2c.outcomes
  IN  (i2c.ret = "caller" /\ pc \in {"i2c_loop", "i2c_done"})
        => /\ \A j \in 1..(Len(o) - 1) : o[j] # "error"
           /\ (o # <<>> /\ o[Len(o)] = "error")
                => (pc = "i2c_done" /\ i2cret = RetNone)
           /\ i2c.max_tries = i2c.given - CountIOErrors(o)

\* C22, its case: a call allowed three attempts ended at its second, which
\* raised another error than IOError.
C22_Witness ==
  /\ pc = "i2c_done" /\ i2c.ret = "caller" /\ i2c.given = 3
  /\ i2c.outcomes = <<"IOError", "error">>
  /\ i2c.max_tries = 2

\* A call of an update run that ended at the open of the bus handle: it
\* returned None without a bus operation (the calls of these runs have a
\* supported operation, a data value where one is needed and max_tries > 0, so
\* nothing else ends a call without an attempt).
OpenFailed(e) == e.kind = "None" /\ ~e.touched

\* C23: the bus handle is opened at the first call and used by all later
\* ones; a call whose open failed returns None without a bus operation, and
\* after it no later call of the run opens the bus again or reaches it.
C23_OpenNotRetried ==
  /\ \A i \in 1..Len(busLog) : busLog[i].touched => i2cbus = "open"
  /\ \A i, j \in 1..Len(busLog) :
       (i < j /\ OpenFailed(busLog[i]))
         => (~OpenFailed(busLog[j]) /\ ~busLog[j].touched)
  /\ (busLog # <<>> /\ OpenFailed(busLog[Len(busLog)])) => i2cbus = "None"

\* C24: every run of upload_firmware ends, whatever the device does, and with
\* a device that never answers it ends with False.
C24_RunTerminates ==
  <>(pc = "done" /\ (peer = "silent" => retval = "False"))

\* C24, its case: against a device that sent only bytes other than ACK the
\* run ended with False after the probes went without acknowledgement.
C24_Witness ==
  /\ pc = "done" /\ retval = "False" /\ peer = "free"
  /\ Len(ProbeLog) = ProbeAttempts
  /\ \A i \in 1..Len(log) : log[i].acked = "no" /\ log[i].wrote = <<log[i].line>>
  /\ wait_iter = ProbeAckWait

\* C25: with a device that acknowledges every line, every bus call successful
\* and the image of one data record and the end-of-file record,
\* upload_firmware returns True, and the new version it reports is what the
\* version register holds after the factory reset: the read is the last bus
\* call of the run and comes behind the reset write.
C25_NewVersionIsReadAfterReset ==
  (pc = "done" /\ peer = "cooperative" /\ args.fw_file = <<DataLine, EofLine>>
     /\ ~args.fw_verify_only /\ pico_serial = "open"
     /\ \A i \in 1..Len(busLog) : busLog[i].kind # "None")
    => /\ retval = "True"
       /\ (capability.smbus /\ ~args.skip_i2c_fw)
            => /\ new_fw_version = version_reg
               /\ busLog[Len(busLog)].to = "uf_newfw_ret"
               /\ ~args.skip_i2c_reset
                    => busLog[Len(busLog) - 1].to = "uf_reset_ret"

\* C25, its case: such a run in which the version after the reset is another
\* than the one read before the update.
C25_Witness ==
  /\ pc = "done" /\ retval = "True" /\ peer = "cooperative"
  /\ capability.smbus /\ ~args.skip_i2c_fw /\ ~args.skip_i2c_reset
  /\ args.fw_file = <<DataLine, EofLine>>
  /\ orig_fw_version # NoData /\ new_fw_version # orig_fw_version
  /\ new_fw_version = version_reg

\* The calls of send_line made by send_file of upis_fw.py, in order.
LegacyFileLog == SelectSeq(log, LAMBDA e : e.to = "lsf_ret")

\* C26: the legacy send_file has returned True, and the run has reported the
\* update completed, only if every line it sent was acknowledged and the
\* terminal record was among them.
C26_LegacySuccessNeedsEveryAck ==
  (pc = "done" /\ retval = "True")
    => /\ \A i \in 1..Len(LegacyFileLog) : LegacyFileLog[i].acked = "yes"
       /\ \E i \in 1..Len(LegacyFileLog) : IsType01(LegacyFileLog[i].line)

\* C27: the received line that acknowledges a written line is never one that
\* waited unread when the line was written: it arrived after the write.
C27_StaleAckNotCounted ==
  [][(pc = "wait_ack" /\ pc' = "sl_done" /\ slret')
       => (wait_iter > 0 \/ FirstAck(rx) > log[Len(log)].stale)]_vars

====
